---- MODULE Spec2Model ----
(***************************************************************************)
(* Model of moneyfield/fields.py: the MoneyField declaration, its          *)
(* attachment to a record type, the descriptor proxies that reconcile one  *)
(* logical money attribute with one or two stored attributes, and the      *)
(* MoneyModelForm integration.                                             *)
(***************************************************************************)
EXTENDS Integers, Sequences, FiniteSets, TLC

(***************************************************************************)
(* Python values.  Every value is a tagged record, so that values of       *)
(* different Python types can be compared.                                 *)
(***************************************************************************)
None == [t |-> "None"]
NOT_PROVIDED == [t |-> "NOT_PROVIDED"]
Unset == [t |-> "unset"]
PyInt(n) == [t |-> "int", v |-> n]
Str(s) == [t |-> "str", s |-> s]
Dec(a) == [t |-> "Decimal", v |-> a]
List(n) == [t |-> "list", len |-> n]
Money(a, c) == [t |-> "Money", amount |-> Dec(a), currency |-> Str(c)]

IsMoney(v) == v.t = "Money"

\* Python truth value of a value (bool(v)); money.Money is true iff its
\* amount is non-zero.
Truthy(v) ==
  CASE v.t = "None" -> FALSE
    [] v.t = "str" -> v.s # ""
    [] v.t = "int" -> v.v # 0
    [] v.t = "Decimal" -> v.v # 0
    [] v.t = "list" -> v.len # 0
    [] v.t = "Money" -> v.amount.v # 0
    [] OTHER -> TRUE

(***************************************************************************)
(* Bounds of the model.                                                    *)
(***************************************************************************)
MaxAmount == 1
MaxAttach == 2
MaxBase == 3

Amounts == 0..MaxAmount
Currencies == {"AAA", "BBB"}
FieldIds == {"f1", "f2"}
Names == {"price", "cost", "total"}

\* Record types: Derived inherits from Base, Base from Grand, and Grand
\* from the framework's root type, which has no _meta.
Types == {"Grand", "Base", "Derived"}
Root == "Model"
Parent(c) ==
  CASE c = "Derived" -> "Base"
    [] c = "Base" -> "Grand"
    [] OTHER -> Root

RECURSIVE Mro(_)
Mro(c) == IF c = Root THEN <<Root>> ELSE <<c>> \o Mro(Parent(c))

VARIABLES
  decl,      \* the declarations of the program: field id -> constructor arguments
  field,     \* the MoneyField objects (NoField before construction)
  classes,   \* the record types: storage fields, descriptors, _meta.money_fields
  obj,       \* one record instance: its type and its __dict__
  assigned,  \* history: the value of the last successful assignment per field
  form,      \* the MoneyModelForm subclass: its model, Meta.exclude, base_fields
  finst,     \* the form instance: its initial data
  lastCall   \* the last operation and how it ended

vars == <<decl, field, classes, obj, assigned, form, finst, lastCall>>

NoField == [t |-> "nofield"]
NoCall == [op |-> "none", exc |-> "none"]
Raised(e) == [t |-> "raised", exc |-> e]
IsField(x) == x.t = "MoneyField"

(***************************************************************************)
(* MoneyField.__init__                                                     *)
(***************************************************************************)
\* The precision pre-validation of the two DecimalField arguments.
BadDecimalPlaces(a) ==
  a.decimal_places = None \/ a.decimal_places.v < 0

BadMaxDigits(a) ==
  a.max_digits = None \/ a.max_digits.v <= 0

\* Mutant: the check forgets currency_default.
CurrencyConflictChoicesOnly(a) ==
  Truthy(a.currency) /\ Truthy(a.currency_choices)

\* "Currency must be either fixed or variable, not both."
CurrencyConflict(a) ==
  /\ Truthy(a.currency)
  /\ (Truthy(a.currency_choices) \/ a.currency_default # NOT_PROVIDED)

\* The exception raised by the "Money default" block, "none" if it passes.
DefaultError(a) ==
  IF a.default = NOT_PROVIDED THEN "none"
  ELSE IF IsMoney(a.default)
    THEN IF Truthy(a.currency) /\ ~(a.currency = a.default.currency)
           THEN "FieldError"
         ELSE IF a.amount_default # NOT_PROVIDED THEN "FieldError"
         ELSE IF a.currency_default # NOT_PROVIDED THEN "FieldError"
         ELSE "none"
    ELSE "TypeError"

\* The exception the constructor raises for arguments a, "none" if it
\* returns a field; the checks run in the order of the code.
InitError(a) ==
  IF BadDecimalPlaces(a) THEN "FieldError"
  ELSE IF BadMaxDigits(a) THEN "FieldError"
  ELSE IF CurrencyConflict(a) THEN "FieldError"
  ELSE DefaultError(a)

\* Mutant: the amount of a Money default is not handed to the sub-field.
AmountDefaultNotSplit(a) == a.amount_default

\* The defaults handed to the two sub-fields: a Money default is split.
AmountDefault(a) ==
  IF a.default # NOT_PROVIDED /\ IsMoney(a.default)
    THEN a.default.amount ELSE a.amount_default

CurrencyDefault(a) ==
  IF a.default # NOT_PROVIDED /\ IsMoney(a.default)
    THEN a.default.currency ELSE a.currency_default

\* The currency sub-field exists only when the field has no fixed currency.
\* The remaining keyword arguments (here: null) go to both sub-fields.
CurrencySubField(a) ==
  IF ~Truthy(a.currency)
    THEN [t |-> "CharField", max_length |-> 3, null |-> a.null,
          default |-> CurrencyDefault(a), choices |-> a.currency_choices]
    ELSE Unset

AmountSubField(a) ==
  [t |-> "MoneyDecimalField", null |-> a.null,
   max_digits |-> a.max_digits,
   decimal_places |-> a.decimal_places,
   default |-> AmountDefault(a)]

\* The field object a successful construction returns.  Field.__init__
\* leaves name None; amount_attr and currency_attr do not exist yet.
MoneyFieldInit(a) ==
  [t |-> "MoneyField",
   fixed_currency |-> a.currency,
   amount_proxy |-> a.amount_proxy,
   amount_field |-> AmountSubField(a),
   currency_field |-> CurrencySubField(a),
   name |-> None,
   amount_attr |-> Unset,
   currency_attr |-> Unset]

\* field f := MoneyField(**decl[f]); a constructor that raises returns no
\* object.
Construct(f) ==
  /\ field[f] = NoField
  /\ LET e == InitError(decl[f]) IN
       /\ lastCall' = [op |-> "init", exc |-> e, f |-> f]
       /\ field' = [field EXCEPT ![f] =
                      IF e = "none" THEN MoneyFieldInit(decl[f]) ELSE Raised(e)]
  /\ UNCHANGED <<decl, classes, obj, assigned, form, finst>>

(***************************************************************************)
(* MoneyField.contribute_to_class                                          *)
(***************************************************************************)
\* Mutant: the amount attribute always gets the suffix.
AmountAttrSuffixed(fld, name) == name \o "_amount"

AmountAttr(fld, name) ==
  IF Truthy(fld.fixed_currency) /\ ~fld.amount_proxy
    THEN name ELSE name \o "_amount"

CurrencyAttr(fld, name) ==
  IF ~Truthy(fld.fixed_currency) THEN Str(name \o "_currency") ELSE None

\* The field object after self.name, self.amount_attr and
\* self.currency_attr are assigned.
Mapped(fld, name) ==
  [fld EXCEPT !.name = Str(name),
              !.amount_attr = Str(AmountAttr(fld, name)),
              !.currency_attr = CurrencyAttr(fld, name)]

\* The storage attributes cls.add_to_class adds, in the order of the calls.
StorageAdded(f, fld, name) ==
  <<[name |-> AmountAttr(fld, name), of |-> f, sub |-> fld.amount_field]>>
  \o (IF ~Truthy(fld.fixed_currency)
        THEN <<[name |-> name \o "_currency", of |-> f,
                sub |-> fld.currency_field]>>
        ELSE <<>>)

\* setattr(cls, name, <proxy>(self)): one descriptor per attribute name.
ProxyClass(fld) ==
  IF ~Truthy(fld.fixed_currency)
    THEN "CompositeMoneyProxy" ELSE "SimpleMoneyProxy"

WithDescriptor(descr, f, fld, name) ==
  {d \in descr : d.name # name}
    \cup {[name |-> name, proxy |-> ProxyClass(fld), f |-> f]}

\* cls._meta.money_fields after "if not hasattr: = []" and ".append(self)";
\* a set (left by MoneyModelFormMetaclass) has no append.
RegistryAppendFails(reg) == reg.t = "set"

RegistryAppended(reg, f) ==
  IF reg = Unset THEN [t |-> "list", items |-> <<f>>]
  ELSE IF reg.t = "list" THEN [t |-> "list", items |-> Append(reg.items, f)]
  ELSE reg

\* The number of contribute_to_class calls so far: each added one amount
\* storage field.
AttachCount(c) ==
  Cardinality({i \in DOMAIN classes[c].local_fields :
                 classes[c].local_fields[i].sub.t = "MoneyDecimalField"})

TotalAttached == AttachCount("Grand") + AttachCount("Base") + AttachCount("Derived")

\* field[f].contribute_to_class(c, name)
Attach(f, c, name) ==
  /\ IsField(field[f])
  /\ TotalAttached < MaxAttach
  /\ LET fld == field[f]
         cl == classes[c] IN
       /\ field' = [field EXCEPT ![f] = Mapped(fld, name)]
       /\ classes' = [classes EXCEPT ![c] =
            [local_fields |-> cl.local_fields \o StorageAdded(f, fld, name),
             descr |-> WithDescriptor(cl.descr, f, fld, name),
             money_fields |-> RegistryAppended(cl.money_fields, f)]]
       /\ lastCall' = [op |-> "attach", f |-> f, cls |-> c, name |-> name,
                       exc |-> IF RegistryAppendFails(cl.money_fields)
                                 THEN "AttributeError" ELSE "none"]
  /\ UNCHANGED <<decl, obj, assigned, form, finst>>

(***************************************************************************)
(* Record instances.  The framework's Model.__init__ stores every storage  *)
(* field's default in the instance.                                        *)
(***************************************************************************)
\* Field.get_default(): the declared default; without one, None, or the
\* empty string for a non-null character field.
SubFieldDefault(sub) ==
  IF sub.default # NOT_PROVIDED THEN sub.default
  ELSE IF sub.t = "CharField" /\ ~sub.null THEN Str("")
  ELSE None

RECURSIVE AllStorage(_)
AllStorage(c) ==
  IF c = Root THEN <<>> ELSE AllStorage(Parent(c)) \o classes[c].local_fields

StorageNames(c) == {AllStorage(c)[i].name : i \in DOMAIN AllStorage(c)}

\* The last storage field added under a name is the one the type keeps.
LastStorage(c, n) ==
  LET s == AllStorage(c)
      i == CHOOSE i \in DOMAIN s :
             s[i].name = n /\ \A j \in DOMAIN s : s[j].name = n => j <= i
  IN s[i]

CreateRecord(c) ==
  /\ obj = Unset
  /\ StorageNames(c) # {}
  /\ obj' = [cls |-> c,
             dict |-> [n \in StorageNames(c) |->
                         SubFieldDefault(LastStorage(c, n).sub)]]
  /\ assigned' = [f \in FieldIds |-> Unset]
  /\ lastCall' = [op |-> "create", exc |-> "none", cls |-> c]
  /\ UNCHANGED <<decl, field, classes, form, finst>>

(***************************************************************************)
(* The descriptors: AbstractMoneyProxy, SimpleMoneyProxy,                  *)
(* CompositeMoneyProxy.  A call returns [exc, dict] (set) or a value (get).*)
(***************************************************************************)
Store(d, k, v) == (k :> v) @@ d

\* money.Money.__init__ as MoneyLC(amount, currency) uses it: an empty
\* currency is rejected.
MoneyLC(amount, currency) ==
  IF currency.t # "str" \/ ~Truthy(currency)
    THEN Raised("ValueError")
    ELSE [t |-> "Money", amount |-> amount, currency |-> currency]

SimpleGetValues(fld, d) ==
  IF fld.amount_attr.s \in DOMAIN d
    THEN <<d[fld.amount_attr.s], fld.fixed_currency>>
    ELSE <<Raised("KeyError"), Raised("KeyError")>>

CompositeGetValues(fld, d) ==
  IF fld.amount_attr.s \in DOMAIN d /\ fld.currency_attr.s \in DOMAIN d
    THEN <<d[fld.amount_attr.s], d[fld.currency_attr.s]>>
    ELSE <<Raised("KeyError"), Raised("KeyError")>>

GetValues(proxy, fld, d) ==
  IF proxy = "SimpleMoneyProxy"
    THEN SimpleGetValues(fld, d) ELSE CompositeGetValues(fld, d)

\* Mutant: None is returned only when both values are null.
ProxyGetBothNull(proxy, fld, d) ==
  LET vals == GetValues(proxy, fld, d) IN
    IF vals[1].t = "raised" THEN vals[1]
    ELSE IF vals[1] = None /\ vals[2] = None THEN None
    ELSE MoneyLC(vals[1], vals[2])

\* AbstractMoneyProxy.__get__ on an instance
ProxyGet(proxy, fld, d) ==
  LET vals == GetValues(proxy, fld, d) IN
    IF vals[1].t = "raised" THEN vals[1]
    ELSE IF vals[1] = None \/ vals[2] = None THEN None
    ELSE MoneyLC(vals[1], vals[2])

\* Mutant: the amount is stored before the currency is checked.
SimpleSetValuesStoreFirst(fld, d, amount, currency) ==
  [exc |-> IF currency # None /\ currency # fld.fixed_currency
             THEN "TypeError" ELSE "none",
   dict |-> Store(d, fld.amount_attr.s, amount)]

SimpleSetValues(fld, d, amount, currency) ==
  IF currency # None /\ currency # fld.fixed_currency
    THEN [exc |-> "TypeError", dict |-> d]
    ELSE [exc |-> "none", dict |-> Store(d, fld.amount_attr.s, amount)]

\* Mutant: a null currency does not overwrite the stored one.
CompositeSetValuesKeepCurrency(fld, d, amount, currency) ==
  [exc |-> "none",
   dict |-> IF currency = None
              THEN Store(d, fld.amount_attr.s, amount)
              ELSE Store(Store(d, fld.amount_attr.s, amount),
                         fld.currency_attr.s, currency)]

CompositeSetValues(fld, d, amount, currency) ==
  [exc |-> "none",
   dict |-> Store(Store(d, fld.amount_attr.s, amount),
                  fld.currency_attr.s, currency)]

SetValues(proxy, fld, d, amount, currency) ==
  IF proxy = "SimpleMoneyProxy"
    THEN SimpleSetValues(fld, d, amount, currency)
    ELSE CompositeSetValues(fld, d, amount, currency)

\* AbstractMoneyProxy.__set__
ProxySet(proxy, fld, d, value) ==
  IF IsMoney(value)
    THEN SetValues(proxy, fld, d, value.amount, value.currency)
  ELSE IF value = None
    THEN SetValues(proxy, fld, d, None, None)
  ELSE IF Truthy(fld.fixed_currency) /\ ~fld.amount_proxy
          /\ value.t = "Decimal"
    THEN SetValues(proxy, fld, d, value, None)
  ELSE [exc |-> "TypeError", dict |-> d]

\* Attribute lookup on an instance of type c: the first type of the MRO
\* that has a descriptor of that name.
RECURSIVE Lookup(_, _)
Lookup(c, name) ==
  IF c = Root THEN {}
  ELSE LET here == {d \in classes[c].descr : d.name = name} IN
         IF here # {} THEN here ELSE Lookup(Parent(c), name)

\* Values a caller may assign to a money attribute.
AssignValues ==
  {Money(a, c) : a \in Amounts, c \in Currencies}
    \cup {None} \cup {Dec(a) : a \in Amounts} \cup {Str("1"), PyInt(1)}

\* obj.<name> = value
SetAttr(name, value) ==
  /\ obj # Unset
  /\ \E d \in Lookup(obj.cls, name) :
       LET r == ProxySet(d.proxy, field[d.f], obj.dict, value) IN
         /\ obj' = [obj EXCEPT !.dict = r.dict]
         /\ assigned' = IF r.exc = "none"
                          THEN [assigned EXCEPT ![d.f] = value] ELSE assigned
         /\ lastCall' = [op |-> "set", exc |-> r.exc, f |-> d.f,
                         name |-> name, value |-> value]
  /\ UNCHANGED <<decl, field, classes, form, finst>>

\* obj.<name>
GetAttr(name) ==
  /\ obj # Unset
  /\ \E d \in Lookup(obj.cls, name) :
       LET r == ProxyGet(d.proxy, field[d.f], obj.dict) IN
         lastCall' = [op |-> "get", f |-> d.f, name |-> name, result |-> r,
                      exc |-> IF r.t = "raised" THEN r.exc ELSE "none"]
  /\ UNCHANGED <<decl, field, classes, obj, assigned, form, finst>>

(***************************************************************************)
(* MoneyModelFormMetaclass.__new__                                         *)
(***************************************************************************)
Range(q) == {q[i] : i \in DOMAIN q}
Perms(S) ==
  {q \in [1..Cardinality(S) -> S] : \A i, j \in DOMAIN q : q[i] = q[j] => i = j}

RegistryItems(reg) ==
  IF reg = Unset THEN {}
  ELSE IF reg.t = "list" THEN Range(reg.items)
  ELSE reg.items

\* Mutant: only the first base's registry is read.
MergedMoneyFieldsOfBase(c) ==
  UNION {RegistryItems(classes[Mro(c)[i]].money_fields) :
           i \in {i \in 2..2 : Mro(c)[i] # Root}}

\* The money fields collected over model.mro()[:2]: the model's own
\* registry and its first base's; the framework's root type has no _meta.
MergedMoneyFields(c) ==
  UNION {RegistryItems(classes[Mro(c)[i]].money_fields) :
           i \in {i \in 1..2 : Mro(c)[i] # Root}}

\* MoneyField.formfield(): the multi-value form field of a money field.
FormField(f) ==
  [t |-> "MoneyFormField", of |-> f,
   initial |-> <<field[f].amount_field.default,
                 IF ~Truthy(field[f].fixed_currency)
                   THEN field[f].currency_field.default
                   ELSE field[f].fixed_currency>>]

\* The form field the framework generates for a storage field.
Generated(n) == [t |-> "generated", name |-> n]

\* OrderedDict.__setitem__: a new key is appended, a known key keeps its
\* position.
Put(od, k, v) ==
  IF \E i \in DOMAIN od : od[i].key = k
    THEN [i \in DOMAIN od |->
            IF od[i].key = k THEN [key |-> k, field |-> v] ELSE od[i]]
    ELSE Append(od, [key |-> k, field |-> v])

\* The inner loop: the first money field, in iteration order, whose amount
\* or currency attribute is the field name; 0 when the loop ends without
\* a break.
FirstMatch(n, order) ==
  LET hits == {j \in DOMAIN order :
                 \/ Str(n) = field[order[j]].amount_attr
                 \/ Str(n) = field[order[j]].currency_attr} IN
    IF hits = {} THEN 0 ELSE CHOOSE j \in hits : \A k \in hits : j <= k

\* Mutant: a field derived from a currency sub-field is not dropped.
RebuildStepKeepCurrency(acc, n, order) ==
  LET j == FirstMatch(n, order) IN
    IF j # 0 /\ Str(n) = field[order[j]].amount_attr
      THEN Put(acc, field[order[j]].name.s, FormField(order[j]))
      ELSE Put(acc, n, Generated(n))

\* One iteration of the outer loop over base_fields.
RebuildStep(acc, n, order) ==
  LET j == FirstMatch(n, order) IN
    IF j = 0 THEN Put(acc, n, Generated(n))
    ELSE IF Str(n) = field[order[j]].amount_attr
      THEN Put(acc, field[order[j]].name.s, FormField(order[j]))
    ELSE acc

RECURSIVE Rebuild(_, _)
Rebuild(base, order) ==
  IF base = <<>> THEN <<>>
  ELSE RebuildStep(Rebuild(SubSeq(base, 1, Len(base) - 1), order),
                   base[Len(base)], order)

\* Field names the framework can generate base fields from: the storage
\* fields of the model and a plain field.
PlainNames == {"title"}
GeneratedNames(c) == StorageNames(c) \cup PlainNames

\* Orderings of at most k of those names.
BaseOrderings(c, k) ==
  UNION {Perms(S) : S \in {S \in SUBSET GeneratedNames(c) :
                              Cardinality(S) <= k}}

\* class F(MoneyModelForm): class Meta: model = c; base lists the names of
\* the generated base fields in order; with byExclude the other names are
\* in Meta.exclude.
BuildForm(c, base, byExclude) ==
  /\ Range(base) \subseteq GeneratedNames(c)
  /\ LET merged == MergedMoneyFields(c) IN
       /\ classes' = [classes EXCEPT ![c].money_fields =
                        [t |-> "set", items |-> merged]]
       /\ IF merged = {}
            THEN /\ form' = form
                 /\ finst' = finst
                 /\ lastCall' = [op |-> "form", cls |-> c,
                                 exc |-> "MoneyModelFormError"]
            ELSE /\ \E order \in Perms(merged) :
                      form' = [model |-> c,
                               exclude |-> IF byExclude
                                             THEN GeneratedNames(c) \ Range(base)
                                             ELSE {},
                               generated |-> base,
                               base_fields |-> Rebuild(base, order)]
                 /\ finst' = Unset
                 /\ lastCall' = [op |-> "form", cls |-> c, exc |-> "none"]
  /\ UNCHANGED <<decl, field, obj, assigned>>

(***************************************************************************)
(* MoneyModelForm.__init__ and MoneyModelForm.clean                        *)
(***************************************************************************)
\* getattr(instance, name)
GetAttrValue(o, name) ==
  IF Lookup(o.cls, name) = {} THEN Raised("AttributeError")
  ELSE LET d == CHOOSE d \in Lookup(o.cls, name) : TRUE IN
         ProxyGet(d.proxy, field[d.f], o.dict)

\* "Money subfields cannot be excluded separately"
ExcludesOneSubField(c, exclude) ==
  /\ exclude # {}
  /\ \E f \in RegistryItems(classes[c].money_fields) :
       /\ ~Truthy(field[f].fixed_currency)
       /\ ~((field[f].amount_attr.s \in exclude)
              = (field[f].currency_attr.s \in exclude))

\* F(instance=obj)
FormInit ==
  /\ form # Unset
  /\ obj # Unset
  /\ LET mfs == RegistryItems(classes[form.model].money_fields)
         initial == [f \in mfs |-> GetAttrValue(obj, field[f].name.s)]
         failed == {initial[f].exc : f \in {f \in mfs : initial[f].t = "raised"}}
     IN IF failed # {}
          THEN /\ \E e \in failed :
                    lastCall' = [op |-> "forminit", exc |-> e]
               /\ finst' = finst
        ELSE IF ExcludesOneSubField(form.model, form.exclude)
          THEN /\ lastCall' = [op |-> "forminit", exc |-> "MoneyModelFormError"]
               /\ finst' = finst
        ELSE /\ lastCall' = [op |-> "forminit", exc |-> "none"]
             /\ finst' = [initial |-> {<<field[f].name.s, initial[f]>> : f \in mfs},
                          cleaned_data |-> Unset]
  /\ UNCHANGED <<decl, field, classes, obj, assigned, form>>

\* MoneyFormField.compress
Compress(data_list) ==
  IF data_list # <<>> THEN MoneyLC(data_list[1], data_list[2]) ELSE None

\* The keys of the form's money form fields.
MoneyKeys == {form.base_fields[i].key :
                i \in {i \in DOMAIN form.base_fields :
                         form.base_fields[i].field.t = "MoneyFormField"}}

MoneyFieldOf(k) ==
  form.base_fields[CHOOSE i \in DOMAIN form.base_fields :
                     form.base_fields[i].key = k].field.of

\* The data lists a money form field can hand to compress: empty, or a
\* validated amount and currency (the fixed currency for a fixed field).
DataLists(k) ==
  {<<>>} \cup
  {<<Dec(a), Str(c)>> :
     a \in Amounts,
     c \in {c \in Currencies :
              Truthy(field[MoneyFieldOf(k)].fixed_currency)
                => Str(c) = field[MoneyFieldOf(k)].fixed_currency}}

\* setattr(self.instance, name, value) for one money field of the loop;
\* st is [exc, dict, assigned].
CleanStep(st, f, cd) ==
  LET name == field[f].name.s IN
    IF st.exc # "none" \/ name \notin DOMAIN cd \/ ~Truthy(cd[name]) THEN st
    ELSE IF Lookup(obj.cls, name) = {}
      THEN [st EXCEPT !.dict = Store(st.dict, name, cd[name])]
    ELSE LET d == CHOOSE d \in Lookup(obj.cls, name) : TRUE
             r == ProxySet(d.proxy, field[d.f], st.dict, cd[name]) IN
           [exc |-> r.exc, dict |-> r.dict,
            assigned |-> IF r.exc = "none"
                           THEN [st.assigned EXCEPT ![d.f] = cd[name]]
                           ELSE st.assigned]

RECURSIVE CleanLoop(_, _, _)
CleanLoop(st, order, cd) ==
  IF order = <<>> THEN st
  ELSE CleanLoop(CleanStep(st, Head(order), cd), Tail(order), cd)

\* form.clean() on cleaned data for some of the money keys
Clean(keys, datas) ==
  /\ form # Unset /\ finst # Unset /\ obj # Unset
  /\ keys \subseteq MoneyKeys
  /\ \A k \in keys : datas[k] \in DataLists(k)
  /\ LET cd == [k \in keys |-> Compress(datas[k])] IN
       \E order \in Perms(RegistryItems(classes[form.model].money_fields)) :
         LET st == CleanLoop([exc |-> "none", dict |-> obj.dict,
                              assigned |-> assigned], order, cd) IN
           /\ obj' = [obj EXCEPT !.dict = st.dict]
           /\ assigned' = st.assigned
           /\ finst' = [finst EXCEPT !.cleaned_data = cd]
           /\ lastCall' = [op |-> "clean", exc |-> st.exc]
  /\ UNCHANGED <<decl, field, classes, form>>

(***************************************************************************)
(* Specifications                                                          *)
(***************************************************************************)
NoClass == [local_fields |-> <<>>, descr |-> {}, money_fields |-> Unset]

InitRest ==
  /\ field = [f \in FieldIds |-> NoField]
  /\ classes = [c \in Types |-> NoClass]
  /\ obj = Unset
  /\ assigned = [f \in FieldIds |-> Unset]
  /\ form = Unset
  /\ finst = Unset
  /\ lastCall = NoCall

\* A plain declaration: MoneyField(max_digits=8, decimal_places=2).
PlainArgs ==
  [max_digits |-> PyInt(8), decimal_places |-> PyInt(2), currency |-> None,
   currency_choices |-> None, currency_default |-> NOT_PROVIDED,
   default |-> NOT_PROVIDED, amount_default |-> NOT_PROVIDED,
   amount_proxy |-> TRUE, null |-> FALSE]

\* Constructor arguments explored by the declaration specification.
CtorArgs ==
  [max_digits : {None, PyInt(0), PyInt(8)},
   decimal_places : {None, PyInt(-1), PyInt(2)},
   currency : {None, Str(""), Str("AAA")},
   currency_choices : {None, List(0), List(3)},
   currency_default : {NOT_PROVIDED, None, Str("BBB")},
   default : {NOT_PROVIDED, None, Dec(1), Money(0, "AAA"), Money(1, "BBB")},
   amount_default : {NOT_PROVIDED, Dec(0)},
   amount_proxy : BOOLEAN,
   null : {FALSE}]

\* Declarations: every combination of constructor arguments for f1.
InitCtor ==
  /\ \E a \in CtorArgs : decl = [f \in FieldIds |-> IF f = "f1" THEN a ELSE PlainArgs]
  /\ InitRest

NextCtor == \E f \in FieldIds : Construct(f)

SpecCtor == InitCtor /\ [][NextCtor]_vars

\* Declarations of one money attribute with valid precision.
RecordArgs ==
  [max_digits : {PyInt(8)},
   decimal_places : {PyInt(2)},
   currency : {None, Str("AAA")},
   currency_choices : {None},
   currency_default : {NOT_PROVIDED, Str("BBB")},
   default : {NOT_PROVIDED, Money(1, "AAA")},
   amount_default : {NOT_PROVIDED, Dec(0)},
   amount_proxy : BOOLEAN,
   null : BOOLEAN]

InitRecord ==
  /\ \E a \in RecordArgs : decl = [f \in FieldIds |-> a]
  /\ InitRest

\* One field, attached once as "price" to Base; records of Base.
NextRecord ==
  \/ Construct("f1")
  \/ (Attach("f1", "Base", "price") /\ field["f1"].amount_attr = Unset)
  \/ CreateRecord("Base")
  \/ \E v \in AssignValues : SetAttr("price", v)
  \/ GetAttr("price")

SpecRecord == InitRecord /\ [][NextRecord]_vars

\* Declarations of the form and life-cycle specifications: f1 with a fixed
\* or a variable currency, with or without the amount proxy; f2 plain.
LifeArgs ==
  {[PlainArgs EXCEPT !.currency = c, !.amount_proxy = p] :
     c \in {None, Str("AAA")}, p \in BOOLEAN}

InitLife ==
  /\ \E a \in LifeArgs :
       decl = [f \in FieldIds |-> IF f = "f1" THEN a ELSE PlainArgs]
  /\ InitRest

Unattached(f) == IsField(field[f]) /\ field[f].amount_attr = Unset
NoFieldsYet == IF form = Unset THEN TRUE ELSE form.generated = <<>>

\* The names of the storage fields of a type, in the order of the model.
RECURSIVE Dedupe(_)
Dedupe(q) ==
  IF q = <<>> THEN <<>>
  ELSE LET r == Dedupe(SubSeq(q, 1, Len(q) - 1)) IN
         IF q[Len(q)] \in Range(r) THEN r ELSE Append(r, q[Len(q)])

AllNames(c) == Dedupe([i \in DOMAIN AllStorage(c) |-> AllStorage(c)[i].name])

\* Form classes over every hierarchy of fields attached once, for every
\* ordering of at most MaxBase generated fields: any number of form classes
\* without fields, then one with fields.
NextForm ==
  \/ \E f \in FieldIds : Construct(f)
  \/ \E c \in Types : Unattached("f1") /\ Attach("f1", c, "price")
  \/ Unattached("f2") /\ Attach("f2", "Derived", "total")
  \/ \E c \in Types : \E base \in BaseOrderings(c, MaxBase) :
       NoFieldsYet /\ BuildForm(c, base, FALSE)

SpecForm == InitLife /\ [][NextForm]_vars

\* Cleaning a form over all fields of a model with one or two money
\* fields, for every cleaned value.
AllDataLists ==
  {<<>>} \cup {<<Dec(a), Str(c)>> : a \in Amounts, c \in Currencies}

\* A form instance is cleaned once.
NotCleaned == IF finst = Unset THEN FALSE ELSE finst.cleaned_data = Unset

NextClean ==
  \/ \E f \in FieldIds : Construct(f)
  \/ Unattached("f1") /\ Attach("f1", "Base", "price")
  \/ Unattached("f2") /\ Attach("f2", "Derived", "total")
  \/ \E c \in {"Base", "Derived"}, b \in BOOLEAN :
       \E base \in {AllNames(c)} \cup BaseOrderings(c, 1) :
         form = Unset /\ BuildForm(c, base, b)
  \/ form # Unset /\ CreateRecord(form.model)
  \/ FormInit
  \/ /\ NotCleaned
     /\ \E keys \in SUBSET MoneyKeys :
          \E datas \in [keys -> AllDataLists] : Clean(keys, datas)

SpecClean == InitLife /\ [][NextClean]_vars

\* The whole life cycle of one field, on small inputs: the field is
\* attached, and attached again, under either name.
LifeNames == {"price", "cost"}
LifeValues == {Money(1, "BBB")}
LifeDataLists == {<<>>, <<Dec(1), Str("AAA")>>}

Init == InitLife

Next ==
  \/ Construct("f1")
  \/ \E n \in LifeNames : Attach("f1", "Base", n)
  \/ CreateRecord("Base")
  \/ \E n \in LifeNames, v \in LifeValues : SetAttr(n, v)
  \/ \E n \in LifeNames : GetAttr(n)
  \/ \E c \in {"Base", "Derived"} : BuildForm(c, AllNames(c), FALSE)
  \/ FormInit
  \/ /\ form # Unset
     /\ \E keys \in SUBSET MoneyKeys :
          \E datas \in [keys -> LifeDataLists] : Clean(keys, datas)

Spec == Init /\ [][Next]_vars

(***************************************************************************)
(* Claims about the declaration (SpecCtor)                                 *)
(***************************************************************************)
PrecisionOk(a) == ~BadDecimalPlaces(a) /\ ~BadMaxDigits(a)

\* C2: a field is fixed-currency or variable-currency, never both: a fixed
\* currency given together with (non-empty) currency_choices or with any
\* currency_default makes the constructor raise FieldError, and every field
\* that is constructed has a currency sub-field exactly when it has no
\* fixed currency.
C2_FixedOrVariable ==
  \A f \in FieldIds : field[f] # NoField =>
    LET a == decl[f] IN
      /\ (Truthy(a.currency)
            /\ (Truthy(a.currency_choices) \/ a.currency_default # NOT_PROVIDED))
           => field[f] = Raised("FieldError")
      /\ IsField(field[f]) =>
           /\ (field[f].currency_field # Unset) <=> ~Truthy(field[f].fixed_currency)
           /\ field[f].fixed_currency = a.currency

C2_Witness ==
  /\ field["f1"] = Raised("FieldError")
  /\ PrecisionOk(decl["f1"])
  /\ decl["f1"].currency = Str("AAA")
  /\ decl["f1"].currency_choices = None
  /\ decl["f1"].currency_default = Str("BBB")
  /\ decl["f1"].default = NOT_PROVIDED

\* The first two error cases of C3 and its success case.
C3_MoneyDefaultCases(f) ==
  LET a == decl[f] IN
    /\ (a.default # NOT_PROVIDED /\ IsMoney(a.default) /\ Truthy(a.currency)
          /\ a.currency # a.default.currency)
         => field[f] = Raised("FieldError")
    /\ (a.default # NOT_PROVIDED /\ IsMoney(a.default)
          /\ (a.amount_default # NOT_PROVIDED \/ a.currency_default # NOT_PROVIDED))
         => field[f] = Raised("FieldError")
    /\ (IsField(field[f]) /\ a.default # NOT_PROVIDED) =>
         /\ IsMoney(a.default)
         /\ field[f].amount_field.default = a.default.amount
         /\ ~Truthy(field[f].fixed_currency) =>
              field[f].currency_field.default = a.default.currency

\* C3 as stated: a default must be a Money compatible with the currency
\* policy; an incompatible Money default or one combined with
\* amount_default or currency_default raises FieldError, a default that is
\* not a Money raises TypeError, and a successful construction splits the
\* Money default over the sub-field defaults.
C3_AsStated ==
  \A f \in FieldIds : field[f] # NoField =>
    /\ C3_MoneyDefaultCases(f)
    /\ (decl[f].default # NOT_PROVIDED /\ ~IsMoney(decl[f].default))
         => field[f] = Raised("TypeError")

\* C3 amended: as C3, but a default that is not a Money raises TypeError
\* only when the checks that run before it pass (valid precision, no fixed
\* currency combined with currency_choices or currency_default); when one
\* of them fails the constructor raises FieldError instead.
C3_DefaultChecked ==
  \A f \in FieldIds : field[f] # NoField =>
    /\ C3_MoneyDefaultCases(f)
    /\ (decl[f].default # NOT_PROVIDED /\ ~IsMoney(decl[f].default)) =>
         field[f] = Raised(IF PrecisionOk(decl[f])
                              /\ ~(Truthy(decl[f].currency)
                                     /\ (Truthy(decl[f].currency_choices)
                                           \/ decl[f].currency_default # NOT_PROVIDED))
                             THEN "TypeError" ELSE "FieldError")

C3_Witness ==
  /\ IsField(field["f1"])
  /\ decl["f1"].default = Money(1, "BBB")
  /\ field["f1"].currency_field # Unset
  /\ field["f1"].currency_field.default = Str("BBB")
  /\ field["f1"].amount_field.default = Dec(1)

(***************************************************************************)
(* Claims about records and the descriptor (SpecRecord)                    *)
(***************************************************************************)
\* The stored amount and currency of a variable-currency field.
Variable(f) == IsField(field[f]) /\ ~Truthy(field[f].fixed_currency)
Attached(f) == IsField(field[f]) /\ field[f].amount_attr # Unset

StoredAmount(o, f) == o.dict[field[f].amount_attr.s]
StoredCurrency(o, f) == o.dict[field[f].currency_attr.s]
Paired(o, f) == (StoredAmount(o, f) = None) <=> (StoredCurrency(o, f) = None)

\* C1 as stated: for a variable-currency field, in every state of a record
\* created with the declared defaults and changed by assignments, the stored
\* amount and currency are both null or both non-null.
C1_AsStated ==
  (obj # Unset /\ Variable("f1") /\ Attached("f1")) => Paired(obj, "f1")

\* C1 amended: for a variable-currency field, every successful assignment
\* to the money attribute leaves the stored amount and currency both null
\* or both non-null, and no assignment, successful or failed, breaks this
\* once it holds; only the record as created from the declared defaults can
\* have one of them null alone.
C1_AssignmentsPair ==
  [][(obj # Unset /\ obj' # Unset /\ Variable("f1") /\ Attached("f1")
        /\ (Paired(obj, "f1")
              \/ (lastCall'.op = "set" /\ lastCall'.exc = "none")))
       => Paired(obj', "f1")]_vars

C1_Witness ==
  /\ obj # Unset /\ Variable("f1") /\ Attached("f1")
  /\ decl["f1"].currency_default = Str("BBB")
  /\ decl["f1"].amount_default = NOT_PROVIDED
  /\ decl["f1"].default = NOT_PROVIDED
  /\ lastCall.op = "set" /\ lastCall.exc = "none"
  /\ lastCall.value = None
  /\ Paired(obj, "f1")

\* The assignments C6 calls invalid.
InvalidAssignment(fld, v) ==
  \/ /\ ~IsMoney(v)
     /\ v # None
     /\ ~(v.t = "Decimal" /\ Truthy(fld.fixed_currency) /\ ~fld.amount_proxy)
  \/ /\ IsMoney(v)
     /\ Truthy(fld.fixed_currency)
     /\ v.currency # fld.fixed_currency

\* C6: an invalid assignment (a value that is neither Money nor None, a
\* bare Decimal being accepted only on a fixed-currency field with
\* amount_proxy=False; or a Money whose currency differs from the fixed
\* currency) raises TypeError, and a failed assignment leaves every stored
\* attribute of the record as it was.
C6_InvalidRejected ==
  [][lastCall'.op = "set" =>
       /\ InvalidAssignment(field[lastCall'.f], lastCall'.value)
            => lastCall'.exc = "TypeError"
       /\ lastCall'.exc # "none" => obj' = obj]_vars

C6_Witness ==
  /\ lastCall.op = "set" /\ lastCall.exc = "TypeError"
  /\ IsMoney(lastCall.value)
  /\ field["f1"].fixed_currency = Str("AAA")
  /\ lastCall.value.currency = Str("BBB")
  /\ StoredAmount(obj, "f1") = Dec(1)

\* What a read returns after value v was assigned successfully.
ReadBack(fld, v) ==
  IF v = None THEN None
  ELSE IF IsMoney(v)
    THEN [t |-> "Money", amount |-> v.amount,
          currency |-> IF Truthy(fld.fixed_currency)
                         THEN fld.fixed_currency ELSE v.currency]
  ELSE [t |-> "Money", amount |-> v, currency |-> fld.fixed_currency]

ReadNow(f) ==
  ProxyGet(ProxyClass(field[f]), field[f], obj.dict)

StoredNull(f) ==
  \/ StoredAmount(obj, f) = None
  \/ (IF Variable(f) THEN StoredCurrency(obj, f) ELSE field[f].fixed_currency) = None

\* C7: after any sequence of assignments a read returns the value of the
\* last successful assignment (None, or a Money of the same amount and
\* currency, the fixed currency for a fixed-currency field), and a read
\* returns None exactly when the stored amount or currency is null.
C7_RoundTrip ==
  (obj # Unset /\ Attached("f1")) =>
    /\ assigned["f1"] # Unset =>
         ReadNow("f1") = ReadBack(field["f1"], assigned["f1"])
    /\ (ReadNow("f1") = None) <=> StoredNull("f1")
    /\ lastCall.op = "get" => lastCall.result = ReadNow("f1")

C7_Witness ==
  /\ obj # Unset
  /\ lastCall.op = "get"
  /\ assigned["f1"] = Dec(1)
  /\ lastCall.result = Money(1, "AAA")

(***************************************************************************)
(* Claims about attachment and the life cycle (Spec)                       *)
(***************************************************************************)
\* The storage fields an attach step added to record type c.
AddedBy(c) ==
  SubSeq(classes'[c].local_fields, Len(classes[c].local_fields) + 1,
         Len(classes'[c].local_fields))

DecimalsIn(q) == {i \in DOMAIN q : q[i].sub.t = "MoneyDecimalField"}
CurrenciesIn(q) ==
  {i \in DOMAIN q : q[i].sub.t = "CharField" /\ q[i].sub.max_length = 3}

\* C4: attaching a field named n to a record type adds exactly one decimal
\* storage attribute (n_amount, or n for a fixed-currency field with
\* amount_proxy=False) and adds a 3-character currency storage attribute
\* n_currency if and only if the field is variable-currency; for a
\* fixed-currency field currency_attr is None and nothing else is added.
C4_AttachAddsStorage ==
  [][lastCall'.op = "attach" =>
       LET c == lastCall'.cls
           n == lastCall'.name
           fld == field[lastCall'.f]
           fixed == Truthy(fld.fixed_currency)
           added == AddedBy(c) IN
         /\ \A o \in Types \ {c} : classes'[o].local_fields = classes[o].local_fields
         /\ classes'[c].local_fields = classes[c].local_fields \o added
         /\ Cardinality(DecimalsIn(added)) = 1
         /\ added[1].sub.t = "MoneyDecimalField"
         /\ added[1].name = (IF fixed /\ ~fld.amount_proxy
                               THEN n ELSE n \o "_amount")
         /\ Len(added) = (IF fixed THEN 1 ELSE 2)
         /\ ~fixed => /\ CurrenciesIn(added) = {2}
                      /\ added[2].name = n \o "_currency"
                      /\ field'[lastCall'.f].currency_attr = Str(n \o "_currency")
         /\ fixed => /\ CurrenciesIn(added) = {}
                     /\ field'[lastCall'.f].currency_attr = None]_vars

C4_Witness ==
  /\ lastCall.op = "attach" /\ lastCall.name = "cost"
  /\ ~Truthy(field["f1"].fixed_currency)
  /\ Len(classes["Base"].local_fields) = 2
  /\ classes["Base"].local_fields[1].name = "cost_amount"
  /\ classes["Base"].local_fields[2].name = "cost_currency"

\* The physical mapping of field f: its name and attribute names, and the
\* number of its entries in the registry of each record type.
Entries(c, f) ==
  LET reg == classes[c].money_fields IN
    IF reg = Unset THEN 0
    ELSE IF reg.t = "list"
      THEN Cardinality({i \in DOMAIN reg.items : reg.items[i] = f})
    ELSE IF f \in reg.items THEN 1 ELSE 0

Mapping(f) ==
  [name |-> field[f].name, amount_attr |-> field[f].amount_attr,
   currency_attr |-> field[f].currency_attr]

\* The record type the field was attached to first.
Owner(c, f) ==
  /\ Entries(c, f) > 0
  /\ \E i \in DOMAIN classes[c].local_fields : classes[c].local_fields[i].of = f

\* C5 as stated: once a field is attached, no later operation, a further
\* attach call included, changes its name, amount_attr or currency_attr, or
\* its single entry in the owning record type's registry.
C5_AsStated ==
  [][Attached("f1") =>
       /\ Mapping("f1")' = Mapping("f1")
       /\ \A c \in Types : Owner(c, "f1") =>
            (Entries(c, "f1") = 1 /\ Entries(c, "f1")' = 1)]_vars

\* C5 amended: once a field is attached, no read or assignment through the
\* descriptor, no building of a form class or form instance and no form
\* cleaning changes its name, amount_attr or currency_attr, removes it from
\* the owning record type's registry or gives it a second entry there
\* (building a form class replaces the registry list by a set of the same
\* fields); a further attach call does overwrite the three names and adds
\* another entry.
C5_MappingKept ==
  [][(Attached("f1") /\ lastCall'.op # "attach") =>
       /\ Mapping("f1")' = Mapping("f1")
       /\ \A c \in Types : Owner(c, "f1") =>
            /\ Entries(c, "f1")' > 0
            /\ Entries(c, "f1") = 1 => Entries(c, "f1")' = 1]_vars

C5_Witness ==
  /\ Attached("f1")
  /\ lastCall.op = "clean" /\ lastCall.exc = "none"
  /\ form.model = "Base"
  /\ classes["Base"].money_fields = [t |-> "set", items |-> {"f1"}]
  /\ Mapping("f1").name = Str("price")
  /\ assigned["f1"] # Unset

(***************************************************************************)
(* Claims about the form class (SpecForm)                                  *)
(***************************************************************************)
\* The field list the claim describes for the generated fields gen of a
\* form over record type c, when the money fields in owned are replaced: an
\* amount sub-field becomes the money form field under the logical name, at
\* its position; a currency sub-field is dropped; any other field is kept.
RECURSIVE Replaced(_, _, _)
Replaced(c, gen, owned) ==
  IF gen = <<>> THEN <<>>
  ELSE LET n == Head(gen)
           rest == Replaced(c, Tail(gen), owned) IN
         IF n \in StorageNames(c) /\ LastStorage(c, n).of \in owned
           THEN IF LastStorage(c, n).sub.t = "MoneyDecimalField"
                  THEN <<[key |-> field[LastStorage(c, n).of].name.s,
                          field |-> FormField(LastStorage(c, n).of)]>> \o rest
                  ELSE rest
           ELSE <<[key |-> n, field |-> Generated(n)]>> \o rest

\* The number of form fields under key k.
KeyCount(k) ==
  Cardinality({i \in DOMAIN form.base_fields : form.base_fields[i].key = k})

\* C8 as stated: in the field list of a created form class, for every
\* ordering of the generated fields, each field derived from the amount
\* sub-field of a money field of the model is replaced at its position by
\* the money form field under the logical name, each field derived from a
\* currency sub-field is removed, and the others are kept in order.
C8_AsStated ==
  form # Unset =>
    form.base_fields = Replaced(form.model, form.generated, FieldIds)

\* C8 amended: as C8, for the money fields in the registry of the form's
\* model or of its first base type; the fields derived from the sub-fields
\* of a money field declared further up the inheritance chain are kept as
\* generated.  Each money field of those registries whose amount sub-field
\* was in the form appears exactly once under its logical name.
C8_FieldsRebuilt ==
  form # Unset =>
    LET owned == RegistryItems(classes[form.model].money_fields) IN
      /\ form.base_fields = Replaced(form.model, form.generated, owned)
      /\ \A f \in owned :
           field[f].amount_attr.s \in Range(form.generated)
             => KeyCount(field[f].name.s) = 1

C8_Witness ==
  /\ form # Unset
  /\ form.model = "Derived"
  /\ form.generated = <<"price_currency", "title", "price_amount">>
  /\ Len(form.base_fields) = 2
  /\ form.base_fields[1].key = "title"
  /\ form.base_fields[2].key = "price"
  /\ form.base_fields[2].field.t = "MoneyFormField"
  /\ Entries("Base", "f1") = 1

(***************************************************************************)
(* Claims about form cleaning (SpecClean)                                  *)
(***************************************************************************)
\* C9: after clean returns, for every money field of the model whose
\* logical name is in cleaned_data, the instance's money attribute holds
\* the cleaned value of that field, for every cleaned value, a money value
\* with amount zero included.
C9_CleanSetsInstance ==
  (lastCall.op = "clean" /\ lastCall.exc = "none") =>
    \A f \in RegistryItems(classes[form.model].money_fields) :
      field[f].name.s \in DOMAIN finst.cleaned_data =>
        GetAttrValue(obj, field[f].name.s) = finst.cleaned_data[field[f].name.s]

====
